---------------------------- MODULE Spec2Model ----------------------------
(***************************************************************************)
(* Model of crcbrute: carry-less multiplication (src/pmul.rs), software    *)
(* polynomial division, the Barret-reduction CRC engine and the brute      *)
(* force suffix search (src/main.rs).                                      *)
(*                                                                         *)
(* pmul64 is modelled by its portable loop; the pclmulqdq and pmull paths   *)
(* selected by cfg return the same pair by the instructions' definition.   *)
(*                                                                         *)
(* Machine words are modelled as the set of their set bit positions: a u64 *)
(* is a subset of 0..63, a u32 a subset of 0..31.  XOR is the symmetric    *)
(* difference, AND the intersection, OR the union; a shift moves the       *)
(* positions and drops those leaving the word.  Bytes are integers 0..255. *)
(***************************************************************************)
EXTENDS Integers, Sequences, FiniteSets, TLC

VARIABLES pc, fn, panic, mul, div, upd, srch, ret

vars == <<pc, fn, panic, mul, div, upd, srch, ret>>

(***************************************************************************)
(* Machine words                                                           *)
(***************************************************************************)
U64Bits == 0..63
U32Bits == 0..31

Xor(x, y) == (x \ y) \cup (y \ x)

\* x << n on a word of width w: bits shifted out at the top are dropped
Shl(x, n, w) == {k + n : k \in {j \in x : j + n < w}}

\* logical x >> n
Shr(x, n) == {k - n : k \in {j \in x : j >= n}}

\* arithmetic x >> n on an i64: the sign bit fills the vacated positions
Sar64(x, n) == Shr(x, n) \cup (IF 63 \in x THEN {k \in U64Bits : k >= 64 - n} ELSE {})

\* u64 as u32
AsU32(x) == x \cap U32Bits

Max(S) == CHOOSE m \in S : \A k \in S : k <= m

\* u64::leading_zeros
leading_zeros(x) == IF x = {} THEN 64 ELSE 63 - Max(x)

\* u32::reverse_bits
reverse_bits(x) == {31 - k : k \in x}

Pow2(n) == 2 ^ n

\* the bits of a byte value 0..255
ByteBits(v) == {k \in 0..7 : (v \div Pow2(k)) % 2 = 1}

\* the byte value of the bits 8*n .. 8*n+7 of a word
ByteAt(x, n) ==
    LET bit(k) == IF (8 * n + k) \in x THEN Pow2(k) ELSE 0
    IN  bit(0) + bit(1) + bit(2) + bit(3) + bit(4) + bit(5) + bit(6) + bit(7)

\* u32::from_le_bytes
from_le_bytes(w) == UNION {Shl(ByteBits(w[n]), 8 * (n - 1), 32) : n \in 1..4}

\* u32::to_le_bytes / u64::to_le_bytes (nbytes = 4 or 8)
to_le_bytes(x, nbytes) == [n \in 1..nbytes |-> ByteAt(x, n - 1)]

\* a word written as its hexadecimal digits, most significant first
Hex(ds) == UNION {{4 * (Len(ds) - n) + k : k \in {j \in 0..3 : (ds[n] \div Pow2(j)) % 2 = 1}}
                  : n \in 1..Len(ds)}

AllOnes32 == U32Bits

\* in-range test of a shift amount, the condition of Rust's overflow check
ShiftOk(n, w) == n >= 0 /\ n < w

(***************************************************************************)
(* src/pmul.rs: pmul64 (software fallback) and pmul32                      *)
(***************************************************************************)
\* mutation: the loop bound taken inclusive, one iteration too many
pmul64_cond_inclusive(i) == i <= 64

\* while i < 64
pmul64_cond(i) == i < 64

\* the shift amounts of one iteration, all on 64-bit operands
pmul64_shifts(i) == {64 - 1 - i, 64 - 1, i}

\* mask = (((a as i64) << (64-1-i)) >> (64-1)) as u64
pmul64_mask(a, i) == Sar64(Shl(a, 64 - 1 - i, 64), 64 - 1)

\* lo ^= mask & (b << i)
pmul64_lo(a, b, lo, i) == Xor(lo, pmul64_mask(a, i) \cap Shl(b, i, 64))

\* hi ^= mask & (b >> (64-1-i))
pmul64_hi(a, b, hi, i) == Xor(hi, pmul64_mask(a, i) \cap Shr(b, 64 - 1 - i))

\* mutation: the final adjustment of hi left out
pmul64_result_unadjusted(lo, hi) == <<lo, hi>>

\* (lo, hi >> 1)
pmul64_result(lo, hi) == <<lo, Shr(hi, 1)>>

\* the locals of a call of pmul64 at loop entry
pmul64_enter(a, b) == [a |-> a, b |-> b, lo |-> {}, hi |-> {}, i |-> 0]

\* one iteration of the loop, i += 1 included
pmul64_step(f) == [f EXCEPT !.lo = pmul64_lo(f.a, f.b, f.lo, f.i),
                            !.hi = pmul64_hi(f.a, f.b, f.hi, f.i),
                            !.i = f.i + 1]

RECURSIVE pmul64_loop(_)
pmul64_loop(f) ==
    IF pmul64_cond(f.i) THEN pmul64_loop(pmul64_step(f)) ELSE pmul64_result(f.lo, f.hi)

pmul64(a, b) == pmul64_loop(pmul64_enter(a, b))

\* (lo as u32, (lo >> 32) as u32) of the pair returned by pmul64
pmul32_split(m) == <<AsU32(m[1]), AsU32(Shr(m[1], 32))>>

pmul32(a, b) == pmul32_split(pmul64(a, b))

(***************************************************************************)
(* src/main.rs: pdivmod64, pdiv64, pmod64                                  *)
(***************************************************************************)
None == [is_some |-> FALSE]
Some(v) == [is_some |-> TRUE, val |-> v]

\* mutation: the loop stops one step early, at equal degrees
pdivmod64_cond_strict(r, b) == leading_zeros(r) < leading_zeros(b)

\* while r.leading_zeros() <= b.leading_zeros()
pdivmod64_cond(r, b) == leading_zeros(r) <= leading_zeros(b)

\* b.leading_zeros()-r.leading_zeros()
pdivmod64_shift(r, b) == leading_zeros(b) - leading_zeros(r)

\* mutation: the quotient bit is not shifted into place
pdivmod64_q_low(q, r, b) == Xor(q, {0})

\* q ^= 1 << (b.leading_zeros()-r.leading_zeros())
pdivmod64_q(q, r, b) == Xor(q, Shl({0}, pdivmod64_shift(r, b), 64))

\* r ^= b << (b.leading_zeros()-r.leading_zeros())
pdivmod64_r(r, b) == Xor(r, Shl(b, pdivmod64_shift(r, b), 64))

\* if b == 0 { return None; }
pdivmod64_zero(b) == b = {}

\* mutation: a zero quotient and remainder in place of None
pdivmod64_bogus == Some(<<{}, {}>>)

\* return None;
pdivmod64_none == None

\* the locals of a call of pdivmod64 at loop entry; n counts the iterations
pdivmod64_enter(a, b) == [a |-> a, b |-> b, q |-> {}, r |-> a, n |-> 0]

\* one iteration of the loop
pdivmod64_step(f) == [f EXCEPT !.q = pdivmod64_q(f.q, f.r, f.b),
                               !.r = pdivmod64_r(f.r, f.b),
                               !.n = f.n + 1]

RECURSIVE pdivmod64_loop(_)
pdivmod64_loop(f) ==
    IF pdivmod64_cond(f.r, f.b) THEN pdivmod64_loop(pdivmod64_step(f)) ELSE Some(<<f.q, f.r>>)

pdivmod64(a, b) == IF pdivmod64_zero(b) THEN pdivmod64_none ELSE pdivmod64_loop(pdivmod64_enter(a, b))

\* mutation: unwrap_or_default, a zero pair in place of the panic
unwrap_or_default(o) ==
    IF o.is_some THEN [panicked |-> FALSE, val |-> o.val]
                 ELSE [panicked |-> FALSE, val |-> <<{}, {}>>]

\* pdivmod64(a, b).unwrap(): the value, or a panic on None
unwrap(o) == IF o.is_some THEN [panicked |-> FALSE, val |-> o.val] ELSE [panicked |-> TRUE]

pdiv64(a, b) ==
    LET u == unwrap(pdivmod64(a, b))
    IN  IF u.panicked THEN u ELSE [panicked |-> FALSE, val |-> u.val[1]]

pmod64(a, b) ==
    LET u == unwrap(pdivmod64(a, b))
    IN  IF u.panicked THEN u ELSE [panicked |-> FALSE, val |-> u.val[2]]

(***************************************************************************)
(* src/main.rs: Crc32                                                      *)
(***************************************************************************)
\* mutation: p_r taken without the bit reversal
Crc32_new_unreflected(p) ==
    LET d == pdiv64(Shl(p, 32, 64), p)
    IN  IF d.panicked
        THEN [panicked |-> TRUE]
        ELSE [panicked |-> FALSE,
              val |-> [p |-> p,
                       b |-> AsU32(d.val),
                       p_r |-> AsU32(p),
                       b_r |-> reverse_bits(AsU32(d.val))]]

\* Crc32::new: the engine, or the panic of pdiv64's unwrap
Crc32_new(p) ==
    LET d == pdiv64(Shl(p, 32, 64), p)
    IN  IF d.panicked
        THEN [panicked |-> TRUE]
        ELSE [panicked |-> FALSE,
              val |-> [p |-> p,
                       b |-> AsU32(d.val),
                       p_r |-> reverse_bits(AsU32(p)),
                       b_r |-> reverse_bits(AsU32(d.val))]]

\* the shift amounts of the two loop bodies of crc32, all on u32 operands
crc32_word_shifts == {1, 31}
crc32_byte_shifts == {24, 1, 8, 31}

\* mutation: the carry bit of lo is not merged in
crc32_merge_nocarry(lo, hi) == Shl(hi, 1, 32)

\* (hi << 1) | (lo >> 31)
crc32_merge(lo, hi) == Shl(hi, 1, 32) \cup Shr(lo, 31)

\* the Barret fold shared by both loops:
\*   let (lo, _) = pmul32(x, self.b_r);
\*   let (lo, hi) = pmul32((lo << 1) ^ x, self.p_r);
\*   (hi << 1) | (lo >> 31)
crc32_fold(self, x) ==
    LET lo1 == pmul32(x, self.b_r)[1]
        m   == pmul32(Xor(Shl(lo1, 1, 32), x), self.p_r)
    IN  crc32_merge(m[1], m[2])

\* body of the loop over 4-byte chunks
crc32_word(self, crc, word) == crc32_fold(self, Xor(crc, from_le_bytes(word)))

\* mutation: the running value is not shifted down by the consumed byte
crc32_byte_unshifted(self, crc, b) ==
    LET c == Xor(crc, ByteBits(b))
    IN  Xor(c, crc32_fold(self, Shl(c, 24, 32)))

\* body of the loop over the remaining bytes
crc32_byte(self, crc, b) ==
    LET c == Xor(crc, ByteBits(b))
    IN  Xor(Shr(c, 8), crc32_fold(self, Shl(c, 24, 32)))

\* data.chunks_exact(4): a chunk is taken while 4 bytes remain after pos
crc32_in_words(data, pos) == Len(data) - pos >= 4
crc32_in_bytes(data, pos) == Len(data) - pos > 0 /\ Len(data) - pos < 4

\* the locals of a call of crc32 on the engine self, after the entry bit invert
crc32_enter(self, crc, data) ==
    [self |-> self, seed |-> crc, data |-> data, crc |-> Xor(crc, AllOnes32), pos |-> 0]

\* one iteration of the loop over 4-byte chunks
crc32_word_step(f) ==
    [f EXCEPT !.crc = crc32_word(f.self, f.crc, SubSeq(f.data, f.pos + 1, f.pos + 4)),
              !.pos = f.pos + 4]

\* one iteration of the loop over the remainder
crc32_byte_step(f) ==
    [f EXCEPT !.crc = crc32_byte(f.self, f.crc, f.data[f.pos + 1]),
              !.pos = f.pos + 1]

\* the final bit invert
crc32_result(crc) == Xor(crc, AllOnes32)

RECURSIVE crc32_loop(_)
crc32_loop(f) ==
    IF crc32_in_words(f.data, f.pos) THEN crc32_loop(crc32_word_step(f))
    ELSE IF crc32_in_bytes(f.data, f.pos) THEN crc32_loop(crc32_byte_step(f))
    ELSE crc32_result(f.crc)

\* Crc32::crc32
crc32(self, crc, data) == crc32_loop(crc32_enter(self, crc, data))

(***************************************************************************)
(* src/main.rs: main                                                       *)
(***************************************************************************)
\* wrapping u64 addition
RECURSIVE add64_from(_, _, _, _)
add64_from(x, y, k, carry) ==
    IF k = 64 THEN {}
    ELSE LET n == (IF k \in x THEN 1 ELSE 0) + (IF k \in y THEN 1 ELSE 0) + carry
         IN  (IF n % 2 = 1 THEN {k} ELSE {}) \cup add64_from(x, y, k + 1, n \div 2)

add64(x, y) == add64_from(x, y, 0, 0)

\* the last counter of the search range: 0xffff_ffff (u32, main.rs 207) or
\* 0xff_ffff_ffff (u64, main.rs 172)
main_last(ascii) == IF ascii THEN 0..39 ELSE U32Bits

\* the next counter of the range, i + 1 on the machine word
main_next(i) == add64(i, {0})

\* convert into a guaranteed ascii representation (main.rs 175-180)
ascii_suffix(i) ==
    LET i1 == (Shl(i, 12, 64) \cap Hex(<<0,0,0,15, 15,15,15,15, 0,0,0,0, 0,0,0,0>>))
                \cup (i \cap Hex(<<0,0,0,0, 0,0,0,0, 0,0,0,15, 15,15,15,15>>))
        i2 == (Shl(i1, 6, 64) \cap Hex(<<0,3,15,15, 0,0,0,0, 0,3,15,15, 0,0,0,0>>))
                \cup (i1 \cap Hex(<<0,0,0,0, 0,3,15,15, 0,0,0,0, 0,3,15,15>>))
        i3 == (Shl(i2, 3, 64) \cap Hex(<<1,15,0,0, 1,15,0,0, 1,15,0,0, 1,15,0,0>>))
                \cup (i2 \cap Hex(<<0,0,1,15, 0,0,1,15, 0,0,1,15, 0,0,1,15>>))
        i4 == (Shl(i3, 1, 64) \cap Hex(<<2,0,2,0, 2,0,2,0, 2,0,2,0, 2,0,2,0>>))
                \cup (i3 \cap Hex(<<0,15,0,15, 0,15,0,15, 0,15,0,15, 0,15,0,15>>))
    IN  add64(i4, Hex(<<4,8,4,8, 4,8,4,8, 4,8,4,8, 4,8,4,8>>))

\* the candidate suffix bytes for loop counter i (a u32 or u64 word)
main_suffix(ascii, i) ==
    IF ascii THEN to_le_bytes(ascii_suffix(i), 8)
             ELSE to_le_bytes(i, 4)

\* + space for suffix
main_zeros(ascii) == IF ascii THEN <<0, 0, 0, 0, 0, 0, 0, 0>> ELSE <<0, 0, 0, 0>>

\* let target = x ^ opt.target ^ c;
main_target(x, opt_target, c) == Xor(Xor(x, opt_target), c)

\* x, c and the derived target (main.rs 148-162)
main_derive(e, prefix, opt_target, ascii) ==
    LET x == crc32(e, crc32(e, {}, prefix), main_zeros(ascii))
        c == crc32(e, {}, main_zeros(ascii))
    IN  main_target(x, opt_target, c)

\* if crc32.crc32(0, &i.to_le_bytes()) == target
main_hit(e, target, suffix) == crc32(e, {}, suffix) = target

\* mutation: the assertion compares with the shadowing derived target
main_assert_shadowed(e, prefix, suffix, opt_target) ==
    crc32(e, crc32(e, {}, prefix), suffix) = main_derive(e, prefix, opt_target, Len(suffix) = 8)

\* assert_eq!(crc32.crc32(crc32.crc32(0, prefix), &i.to_le_bytes()), opt.target)
main_assert(e, prefix, suffix, opt_target) ==
    crc32(e, crc32(e, {}, prefix), suffix) = opt_target

(***************************************************************************)
(* Inputs                                                                  *)
(***************************************************************************)
NumOperands == 5
NumPolys == 4
NumData == 3
MaxLen == 8
NumPrefixes == 2
NumTargets == 3
MaxTried == 3
DivIterCap == 66

\* 0x104c11db7, the standard CRC-32 generator
Crc32Poly == Hex(<<1, 0, 4, 12, 1, 1, 13, 11, 7>>)

\* 0x11edc6f41, the default of the polynomial option (main.rs 130)
DefaultPoly == Hex(<<1, 1, 14, 13, 12, 6, 15, 4, 1>>)

Sample64 == << {}, U64Bits, {0}, Crc32Poly, {63},
               Hex(<<13, 14, 10, 13, 11, 14, 14, 15, 0, 0, 12, 0, 15, 15, 14, 14>>),
               {31, 32}, {1, 62} >>

Sample32 == << {}, U32Bits, {0}, AsU32(Crc32Poly), {31},
               Hex(<<13, 14, 10, 13, 11, 14, 14, 15>>), {15, 16}, {1, 30} >>

\* generators: degree 32 (bit 32 set) and lower degrees
SamplePoly == << Crc32Poly, {0, 1}, DefaultPoly, {0, 32}, Hex(<<1, 0, 7>>),
                 Hex(<<1, 15, 15, 15, 15, 15, 15, 15, 15>>), {31} >>

\* "1234567890", zeros, mixed bytes, "hello worl"
SampleData == << <<49, 50, 51, 52, 53, 54, 55, 56, 57, 48>>,
                 <<0, 0, 0, 0, 0, 0, 0, 0, 0, 0>>,
                 <<255, 128, 1, 0, 170, 85, 254, 127, 16, 8>>,
                 <<104, 101, 108, 108, 111, 32, 119, 111, 114, 108>>,
                 <<1, 2, 4, 8, 16, 32, 64, 128, 255, 0>> >>

SampleSeed == << {}, Hex(<<1, 2, 3, 4, 5, 6, 7, 8>>) >>

\* "123", "", "hello", one zero byte
SamplePrefix == << <<49, 50, 51>>, <<>>, <<104, 101, 108, 108, 111>>, <<0>> >>

\* 0x9642dde3, 0x53e95276, 0x000142fd, 0, 0xffffffff
SampleTarget == << Hex(<<9, 6, 4, 2, 13, 13, 14, 3>>), Hex(<<5, 3, 14, 9, 5, 2, 7, 6>>),
                   Hex(<<0, 0, 0, 1, 4, 2, 15, 13>>), {}, U32Bits >>

Operands64 == {Sample64[k] : k \in 1..NumOperands}
Operands32 == {Sample32[k] : k \in 1..NumOperands}

\* dividends, divisors and generator words of any width: every sample word
Words64 == {Sample64[k] : k \in 1..Len(Sample64)}
Polys == {SamplePoly[k] : k \in 1..NumPolys}
Seeds == {SampleSeed[k] : k \in 1..Len(SampleSeed)}
Prefixes == {SamplePrefix[k] : k \in 1..NumPrefixes}
Targets == {SampleTarget[k] : k \in 1..NumTargets}

\* counters of the search range beyond the first: 0x884863d0, 0x80000000,
\* 0xffffffff (u32) and 0x8610667f, 0x8000000000, 0xffffffffff (u64)
Counters(ascii) ==
    IF ascii THEN {Hex(<<8, 6, 1, 0, 6, 6, 7, 15>>), {39}, 0..39}
             ELSE {Hex(<<8, 8, 4, 8, 6, 3, 13, 0>>), {31}, U32Bits}

\* the byte strings fed to crc32: the leading 0..MaxLen bytes of each sample
Data == {SubSeq(SampleData[k], 1, n) : k \in 1..NumData, n \in 0..MaxLen}

NoFrame == <<>>
NoValue == <<>>

(***************************************************************************)
(* State machine: one call of an entry point, from "idle" to its return    *)
(* or panic.  fn names the entry point called.                             *)
(***************************************************************************)
Init ==
    /\ pc = "idle"
    /\ fn = "none"
    /\ panic = "none"
    /\ mul = NoFrame
    /\ div = NoFrame
    /\ upd = NoFrame
    /\ srch = NoFrame
    /\ ret = NoValue

\* pmul64(a, b): entry, lo = 0, hi = 0, i = 0
CallPmul64(a, b) ==
    /\ pc = "idle"
    /\ fn' = "pmul64"
    /\ mul' = pmul64_enter(a, b)
    /\ pc' = "pmul64"
    /\ UNCHANGED <<panic, div, upd, srch, ret>>

\* pmul32(a, b): calls pmul64(a as u64, b as u64)
CallPmul32(a, b) ==
    /\ pc = "idle"
    /\ fn' = "pmul32"
    /\ mul' = pmul64_enter(a, b)
    /\ pc' = "pmul64"
    /\ UNCHANGED <<panic, div, upd, srch, ret>>

\* one iteration of the loop of pmul64
Pmul64Step ==
    /\ pc = "pmul64"
    /\ pmul64_cond(mul.i)
    /\ IF \A n \in pmul64_shifts(mul.i) : ShiftOk(n, 64)
       THEN /\ mul' = pmul64_step(mul)
            /\ UNCHANGED <<pc, panic>>
       ELSE /\ panic' = "shift"
            /\ pc' = "panicked"
            /\ UNCHANGED mul
    /\ UNCHANGED <<fn, div, upd, srch, ret>>

\* loop exit of pmul64; pmul32 re-splits the low half
Pmul64Return ==
    /\ pc = "pmul64"
    /\ ~pmul64_cond(mul.i)
    /\ IF fn = "pmul32"
       THEN /\ ret' = pmul32_split(pmul64_result(mul.lo, mul.hi))
            /\ pc' = "pmul32_ret"
       ELSE /\ ret' = pmul64_result(mul.lo, mul.hi)
            /\ pc' = "pmul64_ret"
    /\ UNCHANGED <<fn, panic, mul, div, upd, srch>>

\* pdivmod64(a, b): entry and the zero-divisor check
CallPdivmod64(a, b) ==
    /\ pc = "idle"
    /\ fn' = "pdivmod64"
    /\ div' = pdivmod64_enter(a, b)
    /\ IF pdivmod64_zero(b)
       THEN /\ ret' = pdivmod64_none
            /\ pc' = "pdivmod64_ret"
       ELSE /\ pc' = "pdivmod64"
            /\ UNCHANGED ret
    /\ UNCHANGED <<panic, mul, upd, srch>>

\* one iteration of the loop of pdivmod64
Pdivmod64Step ==
    /\ pc = "pdivmod64"
    /\ pdivmod64_cond(div.r, div.b)
    /\ div.n < DivIterCap
    /\ IF ShiftOk(pdivmod64_shift(div.r, div.b), 64)
       THEN /\ div' = pdivmod64_step(div)
            /\ UNCHANGED <<pc, panic>>
       ELSE /\ panic' = "shift"
            /\ pc' = "panicked"
            /\ UNCHANGED div
    /\ UNCHANGED <<fn, mul, upd, srch, ret>>

\* loop exit of pdivmod64: Some((q, r))
Pdivmod64Return ==
    /\ pc = "pdivmod64"
    /\ ~pdivmod64_cond(div.r, div.b)
    /\ ret' = Some(<<div.q, div.r>>)
    /\ pc' = "pdivmod64_ret"
    /\ UNCHANGED <<fn, panic, mul, div, upd, srch>>

\* Crc32::new(p)
CallNew(p) ==
    /\ pc = "idle"
    /\ fn' = "new"
    /\ upd' = [p |-> p]
    /\ IF Crc32_new(p).panicked
       THEN /\ panic' = "unwrap"
            /\ pc' = "panicked"
            /\ UNCHANGED ret
       ELSE /\ ret' = Crc32_new(p).val
            /\ pc' = "new_ret"
            /\ UNCHANGED panic
    /\ UNCHANGED <<mul, div, srch>>

\* crc32(&self, crc, data) on the engine of generator p: entry, bit invert
CallCrc32(p, crc, data) ==
    /\ pc = "idle"
    /\ ~Crc32_new(p).panicked
    /\ fn' = "crc32"
    /\ upd' = crc32_enter(Crc32_new(p).val, crc, data)
    /\ pc' = "crc32"
    /\ UNCHANGED <<panic, mul, div, srch, ret>>

\* one iteration of the loop over 4-byte chunks
Crc32Word ==
    /\ pc = "crc32"
    /\ crc32_in_words(upd.data, upd.pos)
    /\ IF \A n \in crc32_word_shifts : ShiftOk(n, 32)
       THEN /\ upd' = crc32_word_step(upd)
            /\ UNCHANGED <<pc, panic>>
       ELSE /\ panic' = "shift"
            /\ pc' = "panicked"
            /\ UNCHANGED upd
    /\ UNCHANGED <<fn, mul, div, srch, ret>>

\* one iteration of the loop over the remainder
Crc32Byte ==
    /\ pc = "crc32"
    /\ crc32_in_bytes(upd.data, upd.pos)
    /\ IF \A n \in crc32_byte_shifts : ShiftOk(n, 32)
       THEN /\ upd' = crc32_byte_step(upd)
            /\ UNCHANGED <<pc, panic>>
       ELSE /\ panic' = "shift"
            /\ pc' = "panicked"
            /\ UNCHANGED upd
    /\ UNCHANGED <<fn, mul, div, srch, ret>>

\* bit invert and return
Crc32Return ==
    /\ pc = "crc32"
    /\ ~crc32_in_words(upd.data, upd.pos)
    /\ ~crc32_in_bytes(upd.data, upd.pos)
    /\ ret' = crc32_result(upd.crc)
    /\ pc' = "crc32_ret"
    /\ UNCHANGED <<fn, panic, mul, div, upd, srch>>

\* main up to the search loop: the engine and the derived target
MainStart(prefix, opt_target, polynomial, ascii) ==
    /\ pc = "idle"
    /\ fn' = "main"
    /\ IF Crc32_new(polynomial).panicked
       THEN /\ panic' = "unwrap"
            /\ pc' = "panicked"
            /\ srch' = [prefix |-> prefix, opt_target |-> opt_target,
                        polynomial |-> polynomial, ascii |-> ascii]
       ELSE /\ srch' = [prefix |-> prefix, opt_target |-> opt_target,
                        polynomial |-> polynomial, ascii |-> ascii,
                        crc32 |-> Crc32_new(polynomial).val,
                        target |-> main_derive(Crc32_new(polynomial).val,
                                               prefix, opt_target, ascii),
                        i |-> {}, n |-> 0]
            /\ pc' = "main"
            /\ UNCHANGED panic
    /\ UNCHANGED <<mul, div, upd, ret>>

\* a candidate that misses: next i, or the end of the range after its last
\* counter.  n counts the candidates passed; the search is followed for the
\* first MaxTried misses only and is left in the loop beyond.
MainMiss ==
    /\ pc = "main"
    /\ ~main_hit(srch.crc32, srch.target, main_suffix(srch.ascii, srch.i))
    /\ srch.n < MaxTried
    /\ IF srch.i # main_last(srch.ascii)
       THEN /\ srch' = [srch EXCEPT !.i = main_next(srch.i), !.n = srch.n + 1]
            /\ UNCHANGED <<pc, ret>>
       ELSE /\ pc' = "main_ret"
            /\ ret' = NoValue
            /\ UNCHANGED srch
    /\ UNCHANGED <<fn, panic, mul, div, upd>>

\* a candidate that hits: print prefix and suffix, validate, break
MainHit ==
    /\ pc = "main"
    /\ main_hit(srch.crc32, srch.target, main_suffix(srch.ascii, srch.i))
    /\ IF main_assert(srch.crc32, srch.prefix, main_suffix(srch.ascii, srch.i),
                      srch.opt_target)
       THEN /\ pc' = "main_ret"
            /\ ret' = srch.prefix \o main_suffix(srch.ascii, srch.i)
            /\ UNCHANGED panic
       ELSE /\ panic' = "assert"
            /\ pc' = "panicked"
            /\ UNCHANGED ret
    /\ UNCHANGED <<fn, mul, div, upd, srch>>

Next ==
    \/ \E a \in Operands64, b \in Operands64 : CallPmul64(a, b)
    \/ \E a \in Operands32, b \in Operands32 : CallPmul32(a, b)
    \/ Pmul64Step
    \/ Pmul64Return
    \/ \E a \in Words64, b \in Words64 : CallPdivmod64(a, b)
    \/ Pdivmod64Step
    \/ Pdivmod64Return
    \/ \E p \in Polys \cup Words64 : CallNew(p)
    \/ \E p \in Polys, crc \in Seeds, data \in Data : CallCrc32(p, crc, data)
    \/ Crc32Word
    \/ Crc32Byte
    \/ Crc32Return
    \/ \E prefix \in Prefixes, opt_target \in Targets, polynomial \in Polys \cup {{}},
          ascii \in BOOLEAN : MainStart(prefix, opt_target, polynomial, ascii)
    \/ MainMiss
    \/ MainHit

Spec == Init /\ [][Next]_vars

(***************************************************************************)
(* Reference definitions used by the properties                            *)
(***************************************************************************)
\* bit k of the carry-less product of two N-bit operands: the parity of the
\* pairs (i, j) with a_i = b_j = 1 and i + j = k
ClMulRef(a, b, N) == {k \in 0..(2 * N - 1) : Cardinality({i \in a : (k - i) \in b}) % 2 = 1}

\* the 2N-bit concatenation hi:lo of a returned pair
Concat(m, N) == m[1] \cup {k + N : k \in m[2]}

\* one single-bit step of the reflected CRC
RefBit(c, p_r) == IF 0 \in c THEN Xor(Shr(c, 1), p_r) ELSE Shr(c, 1)

RefByte(c, byte, p_r) ==
    LET c0 == Xor(c, ByteBits(byte))
        c1 == RefBit(c0, p_r)
        c2 == RefBit(c1, p_r)
        c3 == RefBit(c2, p_r)
        c4 == RefBit(c3, p_r)
        c5 == RefBit(c4, p_r)
        c6 == RefBit(c5, p_r)
        c7 == RefBit(c6, p_r)
    IN  RefBit(c7, p_r)

RECURSIVE RefBytes(_, _, _)
RefBytes(st, data, p_r) ==
    IF st[2] > Len(data) THEN st[1]
    ELSE RefBytes(<<RefByte(st[1], data[st[2]], p_r), st[2] + 1>>, data, p_r)

\* the bit-by-bit reflected CRC of data from seed crc, generator p
RefCrc(p, crc, data) ==
    Xor(RefBytes(<<Xor(crc, U32Bits), 1>>, data, {31 - k : k \in p \cap U32Bits}), U32Bits)

\* generator supplied as a 33-bit value with bit 32 set
Degree32(p) == p # {} /\ Max(p) = 32

\* nonzero generator of degree <= 32
DegreeAtMost32(p) == p # {} /\ Max(p) <= 32

\* crc32(crc32(0, s1), s2) for the split of data after k bytes
Chained(self, data, k) ==
    crc32(self, crc32(self, {}, SubSeq(data, 1, k)), SubSeq(data, k + 1, Len(data)))

(***************************************************************************)
(* Properties                                                              *)
(***************************************************************************)
\* C1: for a generator with bit 32 set, every seed and every byte string
\* (also of a length that is no multiple of 4), crc32 returns the bit-by-bit
\* reflected CRC with initial and final inversion.
C1_MatchesBitwiseReference ==
    (pc = "crc32_ret" /\ Degree32(upd.self.p))
        => ret = RefCrc(upd.self.p, upd.seed, upd.data)

C1_Witness ==
    /\ pc = "crc32_ret"
    /\ Degree32(upd.self.p)
    /\ upd.seed # {}
    /\ Len(upd.data) = 7
    /\ ret = RefCrc(upd.self.p, upd.seed, upd.data)

\* C2 as stated: for every nonzero generator of degree <= 32, feeding the two
\* parts of any split of the data through two chained calls gives the result
\* of the single call.
C2_ChainingAnyGenerator ==
    (pc = "crc32_ret" /\ upd.seed = {} /\ DegreeAtMost32(upd.self.p))
        => \A k \in 0..Len(upd.data) : Chained(upd.self, upd.data, k) = ret

\* C2 amended: the same for every generator of degree exactly 32 (bit 32 set).
C2_ChainingDegree32 ==
    (pc = "crc32_ret" /\ upd.seed = {} /\ Degree32(upd.self.p))
        => \A k \in 0..Len(upd.data) : Chained(upd.self, upd.data, k) = ret

\* a 3-byte first part (tail path) followed by a 4-byte second part (bulk path)
C2_Witness ==
    /\ pc = "crc32_ret"
    /\ upd.seed = {}
    /\ Degree32(upd.self.p)
    /\ Len(upd.data) = 7
    /\ ret # {}
    /\ Chained(upd.self, upd.data, 3) = ret

\* C3: with generator 0x104c11db7 the checksum of the empty input from seed 0
\* is 0 and the checksum of "123" is 0x884863d2.
C3_KnownVectors ==
    (pc = "crc32_ret" /\ upd.self.p = Crc32Poly /\ upd.seed = {})
        => /\ upd.data = <<>> => ret = {}
           /\ upd.data = <<49, 50, 51>> => ret = Hex(<<8, 8, 4, 8, 6, 3, 13, 2>>)

C3_Witness ==
    /\ pc = "crc32_ret"
    /\ upd.self.p = Crc32Poly
    /\ upd.seed = {}
    /\ upd.data = <<49, 50, 51>>
    /\ ret = Hex(<<8, 8, 4, 8, 6, 3, 13, 2>>)

\* C4: the pair returned by pmul64 (software loop) and by pmul32 is the
\* carry-less product: bit k of hi:lo is the parity of the a_i AND b_j with
\* i + j = k.
C4_CarrylessProduct ==
    /\ pc = "pmul64_ret" => Concat(ret, 64) = ClMulRef(mul.a, mul.b, 64)
    /\ pc = "pmul32_ret" => Concat(ret, 32) = ClMulRef(mul.a, mul.b, 32)

\* a product whose upper half is not zero
C4_Witness ==
    /\ pc = "pmul64_ret"
    /\ 63 \in mul.a
    /\ 0 \in mul.a
    /\ 63 \in mul.b
    /\ ret[2] # {}
    /\ Concat(ret, 64) = ClMulRef(mul.a, mul.b, 64)

\* C5: for nonzero b, pdivmod64 returns Some((q, r)) with q*b XOR r = a over
\* the full 128-bit product, r = 0 or the highest bit of r below that of b;
\* pdiv64 and pmod64 return that q and that r.
C5_DivisionIdentity ==
    (pc = "pdivmod64_ret" /\ div.b # {})
        => /\ ret.is_some
           /\ Xor(ClMulRef(ret.val[1], div.b, 64), ret.val[2]) = div.a
           /\ ret.val[2] = {} \/ Max(ret.val[2]) < Max(div.b)
           /\ pdiv64(div.a, div.b) = [panicked |-> FALSE, val |-> ret.val[1]]
           /\ pmod64(div.a, div.b) = [panicked |-> FALSE, val |-> ret.val[2]]

\* a division with a quotient and a remainder that are both not zero
C5_Witness ==
    /\ pc = "pdivmod64_ret"
    /\ div.b # {}
    /\ ret.is_some
    /\ ret.val[1] # {}
    /\ ret.val[2] # {}
    /\ Cardinality(div.b) > 1

\* C6: pdivmod64(a, 0) returns None for every a: it does not enter the loop,
\* does not panic and returns no pair.
C6_ZeroDivisorIsNone ==
    (fn = "pdivmod64" /\ div.b = {})
        => /\ pc = "pdivmod64_ret"
           /\ panic = "none"
           /\ ~ret.is_some

C6_Witness ==
    /\ fn = "pdivmod64"
    /\ pc = "pdivmod64_ret"
    /\ div.b = {}
    /\ div.a # {}
    /\ ~ret.is_some

\* C7: Crc32::new(0) panics in pdiv64's unwrap and returns no engine; for
\* every other p it returns the engine with fields p, b (the low 32 bits of
\* the quotient of p << 32 by p), p_r = the reversal of the low 32 bits of p
\* and b_r = the reversal of b.
C7_ConstructionFailsOnlyOnZero ==
    fn = "new"
        => /\ upd.p = {} => (pc = "panicked" /\ panic = "unwrap" /\ ret = NoValue)
           /\ upd.p # {} =>
                /\ pc = "new_ret"
                /\ panic = "none"
                /\ ret.p = upd.p
                /\ ret.b = pdivmod64(Shl(upd.p, 32, 64), upd.p).val[1] \cap U32Bits
                /\ ret.p_r = {31 - k : k \in upd.p \cap U32Bits}
                /\ ret.b_r = {31 - k : k \in ret.b}

C7_Witness ==
    /\ fn = "new"
    /\ upd.p = {}
    /\ pc = "panicked"
    /\ panic = "unwrap"

\* C8: every iteration of the loop of pdivmod64 is taken with the leading bit
\* of r at or above that of b, strictly raises r.leading_zeros(), sets one
\* quotient bit that was not set before, and is at most the 64th iteration.
C8_DivisionLoopDecreases ==
    [][(pc = "pdivmod64" /\ pc' = "pdivmod64")
        => /\ div.r # {}
           /\ Max(div.r) >= Max(div.b)
           /\ leading_zeros(div'.r) > leading_zeros(div.r)
           /\ div.q \subseteq div'.q
           /\ Cardinality(div'.q) = Cardinality(div.q) + 1
           /\ div'.n <= 64]_vars

\* a division that takes all 64 iterations
C8_Witness ==
    /\ pc = "pdivmod64_ret"
    /\ div.b # {}
    /\ div.n = 64
    /\ div.r = {}

\* C9: the self-check of main holds: a candidate suffix whose checksum equals
\* the derived target gives the prefix the requested checksum, for the
\* counter the search is at and for the counters of Counters (bit 31 and
\* above set, the last of the range), and the assertion never fails.
C9_SearchAssertionHolds ==
    /\ panic # "assert"
    /\ pc = "main" =>
         \A i \in {srch.i} \cup Counters(srch.ascii) :
            crc32(srch.crc32, {}, main_suffix(srch.ascii, i)) = srch.target
              => crc32(srch.crc32, crc32(srch.crc32, {}, srch.prefix),
                       main_suffix(srch.ascii, i)) = srch.opt_target

\* the 8-byte search behind "123" for 0x9642dde3, whose hit is the counter
\* 0x8610667f (suffix "wkqHIKJH")
C9_Witness ==
    /\ pc = "main"
    /\ srch.ascii
    /\ srch.prefix = <<49, 50, 51>>
    /\ main_suffix(TRUE, Hex(<<8, 6, 1, 0, 6, 6, 7, 15>>))
         = <<119, 107, 113, 72, 73, 75, 74, 72>>
    /\ crc32(srch.crc32, {}, <<119, 107, 113, 72, 73, 75, 74, 72>>) = srch.target
    /\ crc32(srch.crc32, crc32(srch.crc32, {}, srch.prefix),
             <<119, 107, 113, 72, 73, 75, 74, 72>>) = srch.opt_target

\* C10: no shift amount reaches the width of its operand: the amounts of
\* every iteration of pmul64 and of pdivmod64 lie in 0..63, crc32 shifts
\* 32-bit values by 1, 8, 24 or 31 only, and no call panics on a shift.
C10_ShiftsInRange ==
    /\ panic # "shift"
    /\ (pc = "pmul64" /\ pmul64_cond(mul.i))
         => \A n \in pmul64_shifts(mul.i) : n \in 0..63
    /\ (pc = "pdivmod64" /\ pdivmod64_cond(div.r, div.b))
         => /\ leading_zeros(div.r) <= leading_zeros(div.b)
            /\ leading_zeros(div.b) <= 63
            /\ pdivmod64_shift(div.r, div.b) \in 0..63
    /\ pc = "crc32" => (crc32_word_shifts \cup crc32_byte_shifts) \subseteq {1, 8, 24, 31}

\* the last iteration of pmul64
C10_Witness ==
    /\ pc = "pmul64"
    /\ mul.i = 63
    /\ pmul64_shifts(mul.i) = {0, 63}

=============================================================================
